---- MODULE Spec2Model ----
(***************************************************************************)
(* Model of backend/audio_clustering.py: extract_feature_vector and        *)
(* perform_clustering (validator loop, normalisation, HDBSCAN parameter    *)
(* selection, clustering, cluster centres, UMAP parameter selection,       *)
(* embedding, result assembly).                                            *)
(*                                                                         *)
(* Floats are modelled by integers.  NaN, PosInf and NegInf are three      *)
(* distinguished values outside the finite range; NotNumber stands for a   *)
(* value numpy cannot convert to float.  cluster_selection_epsilon, alpha  *)
(* and min_dist are kept in tenths (0.3 is 3, 1.0 is 10).                  *)
(* Python indices are 0-based: record i of the batch is features_data[i+1] *)
(***************************************************************************)
EXTENDS Integers, Sequences, FiniteSets, TLC

VARIABLES
    features_data,    \* the batch handed to perform_clustering
    i,                \* enumerate() position of the validator loop
    feature_vectors,  \* vectors accepted so far
    valid_indices,    \* their batch positions
    warnings,         \* [WARNING] lines printed, in order
    X_scaled,         \* normalised matrix
    hdbscan_params,   \* arguments of hdbscan.HDBSCAN(...)
    cluster_labels,   \* clusterer.fit_predict(X_scaled)
    unique_labels,    \* set(cluster_labels) minus -1
    cluster_centers,  \* one centre per non-noise label
    umap_params,      \* arguments of umap.UMAP(...)
    umap_embeddings,  \* reducer.fit_transform(X_scaled)
    results,          \* the returned dictionary
    invoked,          \* the stages executed so far, in order
    error,            \* message of the exception that left the function
    pc,               \* position in perform_clustering
    main_pc,          \* position in main, "direct" when main is not the caller
    exit_status,      \* the process's exit status, -1 while it runs
    emitted,          \* what main has written of the Result JSON, and where
    run,              \* which invocation of perform_clustering this is
    first             \* what the first invocation handed to and got from the engines

\* the state outside one invocation of perform_clustering
outer == <<main_pc, exit_status, emitted, run, first>>

vars == <<features_data, i, feature_vectors, valid_indices, warnings, X_scaled,
          hdbscan_params, cluster_labels, unique_labels, cluster_centers,
          umap_params, umap_embeddings, results, invoked, error, pc, outer>>

----------------------------------------------------------------------------
(* Bounds *)

\* longest batch whose records and label arrays are enumerated exhaustively
MaxBatch == 3
\* longest batch of the homogeneous (all records valid) family
MaxN == 21
\* largest cluster label the Cluster Engine hands back
MaxLabel == 1
\* longest batch main loads from the features file
MaxMainBatch == 2
\* longest batch perform_clustering is called twice on
MaxRerunBatch == 2

----------------------------------------------------------------------------
(* Values *)

NaN == 1000
PosInf == 1001
NegInf == -1001
NotNumber == 2000

isnan(v) == v = NaN
isinf(v) == v = PosInf \/ v = NegInf

Range(s) == {s[k] : k \in 1..Len(s)}

Max(a, b) == IF a >= b THEN a ELSE b
Min(a, b) == IF a <= b THEN a ELSE b

----------------------------------------------------------------------------
(* extract_feature_vector *)

spectral_features ==
    <<"spectral_centroid_mean", "spectral_centroid_std",
      "spectral_bandwidth_mean", "spectral_bandwidth_std",
      "spectral_rolloff_mean", "spectral_rolloff_std">>
rate_features == <<"zero_crossing_rate_mean", "zero_crossing_rate_std">>
energy_features == <<"rms_mean", "rms_std">>
metadata_features == <<"duration", "sample_rate", "audio_length">>

\* for feature in keys: if feature in features_dict: append(features_dict[feature])
RECURSIVE AppendPresent(_, _)
AppendPresent(features_dict, keys) ==
    IF keys = <<>> THEN <<>>
    ELSE (IF Head(keys) \in DOMAIN features_dict
          THEN <<features_dict[Head(keys)]>> ELSE <<>>)
         \o AppendPresent(features_dict, Tail(keys))

\* the deviation sequence appended on its own when its mean is missing
ExtendPair_Either(features_dict, mean, std) ==
    IF mean \in DOMAIN features_dict
    THEN features_dict[mean] \o features_dict[std]
    ELSE IF std \in DOMAIN features_dict THEN features_dict[std]
    ELSE <<>>

\* if mean in features_dict: extend(features_dict[mean]); extend(features_dict[std])
\* (only reached when the std key is there, see ExtractRaises)
ExtendPair(features_dict, mean, std) ==
    IF mean \in DOMAIN features_dict
    THEN features_dict[mean] \o features_dict[std]
    ELSE <<>>

\* the chroma block placed before the energy block
FeatureList_ChromaEarly(features_dict) ==
    ExtendPair(features_dict, "mfcc_mean", "mfcc_std")
    \o AppendPresent(features_dict, spectral_features)
    \o AppendPresent(features_dict, rate_features)
    \o ExtendPair(features_dict, "chroma_mean", "chroma_std")
    \o AppendPresent(features_dict, energy_features)
    \o AppendPresent(features_dict, metadata_features)

\* the list feature_vector as built by lines 21-59
FeatureList(features_dict) ==
    ExtendPair(features_dict, "mfcc_mean", "mfcc_std")
    \o AppendPresent(features_dict, spectral_features)
    \o AppendPresent(features_dict, rate_features)
    \o AppendPresent(features_dict, energy_features)
    \o ExtendPair(features_dict, "chroma_mean", "chroma_std")
    \o AppendPresent(features_dict, metadata_features)

\* the exception extract_feature_vector raises, "" when it returns
ExtractRaises(features_dict) ==
    IF "mfcc_mean" \in DOMAIN features_dict /\ "mfcc_std" \notin DOMAIN features_dict
        THEN "KeyError"
    ELSE IF "chroma_mean" \in DOMAIN features_dict
            /\ "chroma_std" \notin DOMAIN features_dict
        THEN "KeyError"
    ELSE IF NotNumber \in Range(FeatureList(features_dict))
        THEN "ValueError"
    ELSE ""

extract_feature_vector(features_dict) ==
    [raised |-> ExtractRaises(features_dict),
     vector |-> IF ExtractRaises(features_dict) = ""
                THEN FeatureList(features_dict) ELSE <<>>]

----------------------------------------------------------------------------
(* The records the batches are drawn from *)

FullA == [mfcc_mean |-> <<1>>, mfcc_std |-> <<2>>, rms_mean |-> 3, duration |-> 4]
FullB == [mfcc_mean |-> <<5>>, mfcc_std |-> <<2>>, rms_mean |-> 1, duration |-> 8]

SampleRecords ==
    { [id |-> "a", features |-> FullA],
      [id |-> "b", features |-> FullB],
      \* no 'id', features fine
      [features |-> FullB],
      \* a NaN component, an infinite component
      [id |-> "n", features |-> [FullA EXCEPT !.rms_mean = NaN]],
      [id |-> "p", features |-> [FullA EXCEPT !.duration = PosInf]],
      [id |-> "m", features |-> [FullB EXCEPT !.mfcc_std = <<NegInf>>]],
      \* a NaN component and no 'id'
      [features |-> [FullA EXCEPT !.rms_mean = NaN]],
      \* no 'features' key, with and without 'id'
      [id |-> "f"],
      [name |-> "g"],
      \* mfcc_mean without mfcc_std, mfcc_std without mfcc_mean
      [id |-> "k", features |-> [mfcc_mean |-> <<1>>, rms_mean |-> 3, duration |-> 4]],
      [id |-> "s", features |-> [mfcc_std |-> <<2>>, rms_mean |-> 3, duration |-> 4]],
      \* a value that is no number
      [id |-> "t", features |-> [FullA EXCEPT !.duration = NotNumber]],
      \* no recognised feature group at all
      [id |-> "e", features |-> [unknown |-> 7]] }

RECURSIVE SeqsUpTo(_, _)
SeqsUpTo(S, n) ==
    IF n = 0 THEN {<<>>}
    ELSE LET shorter == SeqsUpTo(S, n - 1)
         IN  shorter \cup {Append(s, x) : s \in {t \in shorter : Len(t) = n - 1}, x \in S}

\* batches of any records up to MaxBatch long
SmallBatches == SeqsUpTo(SampleRecords, MaxBatch)

\* longer batches: records a, b, a, b, ...
LargeBatches ==
    { [p \in 1..n |-> IF p % 2 = 1 THEN [id |-> "a", features |-> FullA]
                                   ELSE [id |-> "b", features |-> FullB]]
      : n \in (MaxBatch + 1)..MaxN }

----------------------------------------------------------------------------
(* The validator loop, lines 73-86 *)

\* the check without its np.isinf half
IsValidVector_NanOnly(feature_vector) ==
    ~(\E k \in 1..Len(feature_vector) : isnan(feature_vector[k]))

\* not np.any(np.isnan(v)) and not np.any(np.isinf(v))
IsValidVector(feature_vector) ==
    /\ ~(\E k \in 1..Len(feature_vector) : isnan(feature_vector[k]))
    /\ ~(\E k \in 1..Len(feature_vector) : isinf(feature_vector[k]))

\* what the try block does with one record: "append" (lines 79-80), "warn"
\* (line 82) or "raise" (an exception inside the try block; the f-string of
\* line 82 reads feature_data['id'] and raises KeyError when it is missing)
TryBlock(feature_data) ==
    IF "features" \notin DOMAIN feature_data THEN "raise"
    ELSE IF extract_feature_vector(feature_data.features).raised # "" THEN "raise"
    ELSE IF IsValidVector(extract_feature_vector(feature_data.features).vector)
        THEN "append"
    ELSE IF "id" \in DOMAIN feature_data THEN "warn"
    ELSE "raise"

\* the except clause, lines 84-86: its f-string reads feature_data['id'] too,
\* and a KeyError raised there leaves perform_clustering
ExceptBlock(feature_data) ==
    IF "id" \in DOMAIN feature_data THEN "continue" ELSE "propagate"

\* the 1-based position appended instead of enumerate()'s i
AppendIndex_OneBased(indices, idx) == Append(indices, idx + 1)

\* valid_indices.append(i)
AppendIndex(indices, idx) == Append(indices, idx)

ValidatorStep ==
    /\ pc = "loop"
    /\ i < Len(features_data)
    /\ LET feature_data == features_data[i + 1]
           try == TryBlock(feature_data)
       IN  \/ /\ try = "append"
              /\ feature_vectors' =
                     Append(feature_vectors,
                            extract_feature_vector(feature_data.features).vector)
              /\ valid_indices' = AppendIndex(valid_indices, i)
              /\ i' = i + 1
              /\ UNCHANGED <<warnings, error, pc>>
           \/ /\ try = "warn"
              /\ warnings' = Append(warnings, [kind |-> "invalid", id |-> feature_data.id])
              /\ i' = i + 1
              /\ UNCHANGED <<feature_vectors, valid_indices, error, pc>>
           \/ /\ try = "raise"
              /\ ExceptBlock(feature_data) = "continue"
              /\ warnings' = Append(warnings, [kind |-> "failed", id |-> feature_data.id])
              /\ i' = i + 1
              /\ UNCHANGED <<feature_vectors, valid_indices, error, pc>>
           \/ /\ try = "raise"
              /\ ExceptBlock(feature_data) = "propagate"
              /\ error' = "KeyError: 'id'"
              /\ pc' = "raised"
              /\ UNCHANGED <<i, feature_vectors, valid_indices, warnings>>
    /\ UNCHANGED <<features_data, X_scaled, hdbscan_params, cluster_labels,
                   unique_labels, cluster_centers, umap_params, umap_embeddings,
                   results, invoked>>
    /\ UNCHANGED outer

\* the emptiness test comparing with < instead of ==
NoVectors_Less(vectors) == Len(vectors) < 0

\* len(feature_vectors) == 0
NoVectors(vectors) == Len(vectors) = 0

\* lines 88-89
CheckEmpty ==
    /\ pc = "loop"
    /\ i = Len(features_data)
    /\ IF NoVectors(feature_vectors)
       THEN /\ error' = "No valid feature vectors found"
            /\ pc' = "raised"
       ELSE /\ pc' = "normalize"
            /\ UNCHANGED error
    /\ UNCHANGED <<features_data, i, feature_vectors, valid_indices, warnings,
                   X_scaled, hdbscan_params, cluster_labels, unique_labels,
                   cluster_centers, umap_params, umap_embeddings, results, invoked>>
    /\ UNCHANGED outer

----------------------------------------------------------------------------
(* Normalisation, lines 94-98 *)

RECURSIVE SumSeq(_)
SumSeq(s) == IF s = <<>> THEN 0 ELSE Head(s) + SumSeq(Tail(s))

Column(X, c) == [r \in 1..Len(X) |-> X[r][c]]

\* np.array(feature_vectors) is a 2-D float matrix only when there is a row
\* and all rows have one length; StandardScaler refuses anything else, and a
\* matrix with no column
Ragged(vectors) == \E r \in 1..Len(vectors) : Len(vectors[r]) # Len(vectors[1])
NoColumns(vectors) == Len(vectors[1]) = 0
NotAMatrix(vectors) == Len(vectors) = 0 \/ Ragged(vectors) \/ NoColumns(vectors)

\* StandardScaler().fit_transform: each entry minus its column mean, over the
\* column's standard deviation.  Entries are kept as the exact numerator
\* n*x - sum(column) of the centred value; the positive per-column factor
\* 1/(n*std) is the same for every row and is left out.
fit_transform(X) ==
    [r \in 1..Len(X) |->
        [c \in 1..Len(X[1]) |-> Len(X) * X[r][c] - SumSeq(Column(X, c))]]

RECURSIVE Widest(_)
\* the length of the longest row
Widest(vectors) ==
    IF vectors = <<>> THEN 0 ELSE Max(Len(Head(vectors)), Widest(Tail(vectors)))

\* rows of different lengths filled up with zeros and normalised
Normalize_ZeroPad ==
    /\ pc = "normalize"
    /\ invoked' = Append(invoked, "normalizer")
    /\ IF Widest(feature_vectors) = 0
       THEN /\ error' = "ValueError"
            /\ pc' = "raised"
            /\ UNCHANGED X_scaled
       ELSE /\ X_scaled' =
                   fit_transform([r \in 1..Len(feature_vectors) |->
                       [c \in 1..Widest(feature_vectors) |->
                           IF c <= Len(feature_vectors[r])
                           THEN feature_vectors[r][c] ELSE 0]])
            /\ pc' = "hdbscan_params"
            /\ UNCHANGED error
    /\ UNCHANGED <<features_data, i, feature_vectors, valid_indices, warnings,
                   hdbscan_params, cluster_labels, unique_labels, cluster_centers,
                   umap_params, umap_embeddings, results>>
    /\ UNCHANGED outer

Normalize ==
    /\ pc = "normalize"
    /\ invoked' = Append(invoked, "normalizer")
    /\ IF NotAMatrix(feature_vectors)
       THEN /\ error' = "ValueError"
            /\ pc' = "raised"
            /\ UNCHANGED X_scaled
       ELSE /\ X_scaled' = fit_transform(feature_vectors)
            /\ pc' = "hdbscan_params"
            /\ UNCHANGED error
    /\ UNCHANGED <<features_data, i, feature_vectors, valid_indices, warnings,
                   hdbscan_params, cluster_labels, unique_labels, cluster_centers,
                   umap_params, umap_embeddings, results>>
    /\ UNCHANGED outer

----------------------------------------------------------------------------
(* HDBSCAN parameters, lines 105-131 *)

\* half of n instead of a third
ClusterSizeBranch_Half(n) ==
    IF n <= 10 THEN <<Max(2, n \div 2), 1>>
    ELSE IF n < 20 THEN <<3, 2>>
    ELSE <<3, 2>>

\* the first branch with n < 10 where the second keeps n <= 10
ClusterSizeBranch_Strict(n) ==
    IF n < 10 THEN <<Max(2, n \div 3), 1>>
    ELSE IF n < 20 THEN <<3, 2>>
    ELSE <<3, 2>>

\* first if/elif/else, lines 105-119: <<min_cluster_size, min_samples>>
ClusterSizeBranch(n) ==
    IF n <= 10 THEN <<Max(2, n \div 3), 1>>
    ELSE IF n < 20 THEN <<3, 2>>
    ELSE <<3, 2>>

\* second if/else, lines 122-131: <<cluster_selection_epsilon, alpha>> in tenths
EpsilonBranch(n) ==
    IF n <= 10 THEN <<3, 5>>
    ELSE <<1, 10>>

\* the keyword arguments of hdbscan.HDBSCAN, lines 133-140
HdbscanParams(n) ==
    [min_cluster_size |-> ClusterSizeBranch(n)[1],
     min_samples |-> ClusterSizeBranch(n)[2],
     metric |-> "euclidean",
     cluster_selection_method |-> "eom",
     cluster_selection_epsilon |-> EpsilonBranch(n)[1],
     alpha |-> EpsilonBranch(n)[2]]

SelectHdbscanParams ==
    /\ pc = "hdbscan_params"
    /\ hdbscan_params' = HdbscanParams(Len(feature_vectors))
    /\ invoked' = Append(invoked, "hdbscan_params")
    /\ pc' = "hdbscan"
    /\ UNCHANGED <<features_data, i, feature_vectors, valid_indices, warnings,
                   X_scaled, cluster_labels, unique_labels, cluster_centers,
                   umap_params, umap_embeddings, results, error>>
    /\ UNCHANGED outer

----------------------------------------------------------------------------
(* The Cluster Engine, line 142 *)

Labels == -1..MaxLabel

\* the label arrays fit_predict may hand back for n rows, one label per row:
\* every array for the short batches; for the long ones the arrays that are
\* constant on the first half and on the second half of the rows
EngineLabelings(n) ==
    IF n <= MaxBatch THEN [1..n -> Labels]
    ELSE { [r \in 1..n |-> IF r <= n \div 2 THEN a ELSE b] : a, b \in Labels }

\* fit_predict is a function of its matrix and parameters: a second
\* invocation that hands it what the first did gets what the first got
FitPredictSeen ==
    run = 2 /\ X_scaled = first.X_scaled /\ hdbscan_params = first.hdbscan_params

FitPredictOutcomes ==
    IF FitPredictSeen THEN {first.cluster_labels}
    ELSE EngineLabelings(Len(X_scaled))

\* an exception of the engine taken for a result: the function goes on
ClusterEngine_Swallow ==
    /\ pc = "hdbscan"
    /\ invoked' = Append(invoked, "hdbscan")
    /\ \/ /\ \E labels \in FitPredictOutcomes : cluster_labels' = labels
          /\ pc' = "centers"
          /\ UNCHANGED error
       \/ /\ ~FitPredictSeen
          /\ error' = "EngineFailure: hdbscan"
          /\ cluster_labels' = [r \in 1..Len(X_scaled) |-> -1]
          /\ pc' = "centers"
    /\ UNCHANGED <<features_data, i, feature_vectors, valid_indices, warnings,
                   X_scaled, hdbscan_params, unique_labels, cluster_centers,
                   umap_params, umap_embeddings, results>>
    /\ UNCHANGED outer

ClusterEngine ==
    /\ pc = "hdbscan"
    /\ invoked' = Append(invoked, "hdbscan")
    /\ \/ /\ \E labels \in FitPredictOutcomes : cluster_labels' = labels
          /\ pc' = "centers"
          /\ UNCHANGED error
       \/ /\ ~FitPredictSeen
          /\ error' = "EngineFailure: hdbscan"
          /\ pc' = "raised"
          /\ UNCHANGED cluster_labels
    /\ UNCHANGED <<features_data, i, feature_vectors, valid_indices, warnings,
                   X_scaled, hdbscan_params, unique_labels, cluster_centers,
                   umap_params, umap_embeddings, results>>
    /\ UNCHANGED outer

----------------------------------------------------------------------------
(* Cluster centres, lines 145-157 *)

\* set(cluster_labels) with -1 removed, lines 145-147
UniqueLabels(labels) == Range(labels) \ {-1}

\* the labels in descending order
RECURSIVE sorted_Descending(_)
sorted_Descending(S) ==
    IF S = {} THEN <<>>
    ELSE LET greatest == CHOOSE x \in S : \A y \in S : x >= y
         IN  <<greatest>> \o sorted_Descending(S \ {greatest})

\* sorted(unique_labels)
RECURSIVE sorted(_)
sorted(S) ==
    IF S = {} THEN <<>>
    ELSE LET least == CHOOSE x \in S : \A y \in S : x <= y
         IN  <<least>> \o sorted(S \ {least})

\* the mask taken with >= instead of ==
RECURSIVE Masked_AtLeast(_, _, _)
Masked_AtLeast(X, labels, label) ==
    IF X = <<>> THEN <<>>
    ELSE (IF Head(labels) >= label THEN <<Head(X)>> ELSE <<>>)
         \o Masked_AtLeast(Tail(X), Tail(labels), label)

\* X_scaled[cluster_labels == label]
RECURSIVE Masked(_, _, _)
Masked(X, labels, label) ==
    IF X = <<>> THEN <<>>
    ELSE (IF Head(labels) = label THEN <<Head(X)>> ELSE <<>>)
         \o Masked(Tail(X), Tail(labels), label)

\* np.mean(rows, axis=0): the column sums over the number of rows, kept as
\* the exact fraction sum/count
mean(rows) ==
    [sum |-> [c \in 1..Len(rows[1]) |-> SumSeq(Column(rows, c))],
     count |-> Len(rows)]

\* the loop of lines 152-157
ClusterCenters(X, labels, unique) ==
    [k \in 1..Cardinality(unique) |-> mean(Masked(X, labels, sorted(unique)[k]))]

Summarize ==
    /\ pc = "centers"
    /\ unique_labels' = UniqueLabels(cluster_labels)
    /\ cluster_centers' =
           ClusterCenters(X_scaled, cluster_labels, UniqueLabels(cluster_labels))
    /\ invoked' = Append(invoked, "centers")
    /\ pc' = "umap_params"
    /\ UNCHANGED <<features_data, i, feature_vectors, valid_indices, warnings,
                   X_scaled, hdbscan_params, cluster_labels, umap_params,
                   umap_embeddings, results, error>>
    /\ UNCHANGED outer

----------------------------------------------------------------------------
(* UMAP parameters, lines 162-180 *)

\* the middle branch taken for n = 10 too
NeighborBranch_Inclusive(n) ==
    IF n < 5 THEN <<Max(1, n - 1), 5>>
    ELSE IF n <= 10 THEN <<Min(5, n - 1), 3>>
    ELSE <<15, 1>>

\* the if/elif/else of lines 162-176: <<n_neighbors, min_dist>>, min_dist in tenths
NeighborBranch(n) ==
    IF n < 5 THEN <<Max(1, n - 1), 5>>
    ELSE IF n < 10 THEN <<Min(5, n - 1), 3>>
    ELSE <<15, 1>>

\* line 180 without line 179
ClampNeighbors_NoUpper(n_neighbors, n) == Max(1, n_neighbors)

\* lines 179-180
ClampNeighbors(n_neighbors, n) == Max(1, Min(n_neighbors, n - 1))

\* the keyword arguments of umap.UMAP, lines 184-190
UmapParams(n) ==
    [n_neighbors |-> ClampNeighbors(NeighborBranch(n)[1], n),
     min_dist |-> NeighborBranch(n)[2],
     n_components |-> 2,
     metric |-> "euclidean",
     random_state |-> 42]

\* the embedding parameters chosen from the batch length instead of the
\* number of valid vectors
SelectUmapParams_BatchSize ==
    /\ pc = "umap_params"
    /\ umap_params' = UmapParams(Len(features_data))
    /\ invoked' = Append(invoked, "umap_params")
    /\ pc' = "umap"
    /\ UNCHANGED <<features_data, i, feature_vectors, valid_indices, warnings,
                   X_scaled, hdbscan_params, cluster_labels, unique_labels,
                   cluster_centers, umap_embeddings, results, error>>
    /\ UNCHANGED outer

SelectUmapParams ==
    /\ pc = "umap_params"
    /\ umap_params' = UmapParams(Len(feature_vectors))
    /\ invoked' = Append(invoked, "umap_params")
    /\ pc' = "umap"
    /\ UNCHANGED <<features_data, i, feature_vectors, valid_indices, warnings,
                   X_scaled, hdbscan_params, cluster_labels, unique_labels,
                   cluster_centers, umap_embeddings, results, error>>
    /\ UNCHANGED outer

----------------------------------------------------------------------------
(* The Embedding Engine, line 192 *)

\* the coordinate arrays fit_transform may hand back for n rows, one 2-D point
\* per row; perform_clustering never reads the coordinates, two layouts are kept
EngineEmbeddings(n) == { [r \in 1..n |-> <<r * s, s>>] : s \in {0, 1} }

\* fit_transform with random_state fixed is a function of its matrix and
\* parameters
FitTransformSeen ==
    run = 2 /\ X_scaled = first.X_scaled /\ umap_params = first.umap_params

FitTransformOutcomes ==
    IF FitTransformSeen THEN {first.umap_embeddings}
    ELSE EngineEmbeddings(Len(X_scaled))

EmbeddingEngine ==
    /\ pc = "umap"
    /\ invoked' = Append(invoked, "umap")
    /\ \/ /\ \E points \in FitTransformOutcomes : umap_embeddings' = points
          /\ pc' = "results"
          /\ UNCHANGED error
       \/ /\ ~FitTransformSeen
          /\ error' = "EngineFailure: umap"
          /\ pc' = "raised"
          /\ UNCHANGED umap_embeddings
    /\ UNCHANGED <<features_data, i, feature_vectors, valid_indices, warnings,
                   X_scaled, hdbscan_params, cluster_labels, unique_labels,
                   cluster_centers, umap_params, results>>
    /\ UNCHANGED outer

----------------------------------------------------------------------------
(* The result, lines 197-206 *)

\* the comparison negated
NoisePoints_NotNoise(labels) == Cardinality({r \in 1..Len(labels) : labels[r] # -1})

\* int(np.sum(cluster_labels == -1))
NoisePoints(labels) == Cardinality({r \in 1..Len(labels) : labels[r] = -1})

\* len(unique_labels)
TotalClusters(unique) == Cardinality(unique)

NoResults ==
    [cluster_labels |-> <<>>, umap_embeddings |-> <<>>, cluster_centers |-> <<>>,
     valid_indices |-> <<>>, total_clusters |-> 0, noise_points |-> 0]

AssembleResult ==
    /\ pc = "results"
    /\ results' = [cluster_labels |-> cluster_labels,
                   umap_embeddings |-> umap_embeddings,
                   cluster_centers |-> cluster_centers,
                   valid_indices |-> valid_indices,
                   total_clusters |-> TotalClusters(unique_labels),
                   noise_points |-> NoisePoints(cluster_labels)]
    /\ invoked' = Append(invoked, "results")
    /\ pc' = "returned"
    /\ UNCHANGED <<features_data, i, feature_vectors, valid_indices, warnings,
                   X_scaled, hdbscan_params, cluster_labels, unique_labels,
                   cluster_centers, umap_params, umap_embeddings, error>>
    /\ UNCHANGED outer

----------------------------------------------------------------------------
(* The specification *)

\* nothing remembered of an earlier invocation
NoFirst ==
    [X_scaled |-> <<>>, hdbscan_params |-> HdbscanParams(0), cluster_labels |-> <<>>,
     umap_params |-> UmapParams(0), umap_embeddings |-> <<>>, results |-> NoResults]

Init ==
    /\ features_data \in SmallBatches \cup LargeBatches
    /\ i = 0
    /\ feature_vectors = <<>>
    /\ valid_indices = <<>>
    /\ warnings = <<>>
    /\ X_scaled = <<>>
    /\ hdbscan_params = HdbscanParams(0)
    /\ cluster_labels = <<>>
    /\ unique_labels = {}
    /\ cluster_centers = <<>>
    /\ umap_params = UmapParams(0)
    /\ umap_embeddings = <<>>
    /\ results = NoResults
    /\ invoked = <<>>
    /\ error = ""
    /\ pc = "loop"
    /\ main_pc = "direct"
    /\ exit_status = -1
    /\ emitted = "none"
    /\ run = 1
    /\ first = NoFirst

Next ==
    \/ ValidatorStep
    \/ CheckEmpty
    \/ Normalize
    \/ SelectHdbscanParams
    \/ ClusterEngine
    \/ Summarize
    \/ SelectUmapParams
    \/ EmbeddingEngine
    \/ AssembleResult

Spec == Init /\ [][Next]_vars

----------------------------------------------------------------------------
(* main, lines 208-237 *)

\* the statements after line 225 run only when perform_clustering returned,
\* whatever it ended with
CallEnded == pc \in {"returned", "raised"}

\* the statements after line 225 run only when perform_clustering returned
CallReturned == pc = "returned"

\* an exception escaped perform_clustering into the try block of main
CallRaised == pc = "raised"

\* args.output
OutputTargets == {"stdout", "file"}

\* sys.exit(status), or falling off the end of main with status 0
Exit(status) ==
    /\ main_pc' = "exited"
    /\ exit_status' = status

\* lines 215-225: open and json.load, the falsy check, the call
MainStart ==
    /\ main_pc = "start"
    /\ \/ \* open() or json.load() raises, lines 235-237
          /\ Exit(1)
          /\ UNCHANGED pc
       \/ \* not features_data, lines 220-222
          /\ features_data = <<>>
          /\ Exit(1)
          /\ UNCHANGED pc
       \/ \* line 225
          /\ features_data # <<>>
          /\ main_pc' = "call"
          /\ pc' = "loop"
          /\ UNCHANGED exit_status
    /\ UNCHANGED <<features_data, i, feature_vectors, valid_indices, warnings,
                   X_scaled, hdbscan_params, cluster_labels, unique_labels,
                   cluster_centers, umap_params, umap_embeddings, results,
                   invoked, error, emitted, run, first>>

\* lines 228-233
MainOutput ==
    /\ main_pc = "call"
    /\ CallReturned
    /\ \E output \in OutputTargets :
          \/ \* print(json.dumps(results)), or json.dump and the [SUCCESS] line
             /\ emitted' = output
             /\ Exit(0)
          \/ \* print raises before anything is written; open or json.dump
             \* raises with nothing or a part of the JSON in the file
             /\ emitted' \in (IF output = "stdout" THEN {"none"}
                               ELSE {"none", "partial file"})
             /\ Exit(1)
          \/ \* the file is written and the print of line 233 raises
             /\ output = "file"
             /\ emitted' = "file"
             /\ Exit(1)
    /\ UNCHANGED <<features_data, i, feature_vectors, valid_indices, warnings,
                   X_scaled, hdbscan_params, cluster_labels, unique_labels,
                   cluster_centers, umap_params, umap_embeddings, results,
                   invoked, error, pc, run, first>>

\* the handler reports the exception and main falls off its end
MainExcept_Swallow ==
    /\ main_pc = "call"
    /\ CallRaised
    /\ Exit(0)
    /\ UNCHANGED <<features_data, i, feature_vectors, valid_indices, warnings,
                   X_scaled, hdbscan_params, cluster_labels, unique_labels,
                   cluster_centers, umap_params, umap_embeddings, results,
                   invoked, error, pc, emitted, run, first>>

\* lines 235-237 for an exception of perform_clustering
MainExcept ==
    /\ main_pc = "call"
    /\ CallRaised
    /\ Exit(1)
    /\ UNCHANGED <<features_data, i, feature_vectors, valid_indices, warnings,
                   X_scaled, hdbscan_params, cluster_labels, unique_labels,
                   cluster_centers, umap_params, umap_embeddings, results,
                   invoked, error, pc, emitted, run, first>>

\* the features files main is run on
MainBatches == SeqsUpTo(SampleRecords, MaxMainBatch)

InitMain ==
    /\ features_data \in MainBatches
    /\ i = 0
    /\ feature_vectors = <<>>
    /\ valid_indices = <<>>
    /\ warnings = <<>>
    /\ X_scaled = <<>>
    /\ hdbscan_params = HdbscanParams(0)
    /\ cluster_labels = <<>>
    /\ unique_labels = {}
    /\ cluster_centers = <<>>
    /\ umap_params = UmapParams(0)
    /\ umap_embeddings = <<>>
    /\ results = NoResults
    /\ invoked = <<>>
    /\ error = ""
    /\ pc = "idle"
    /\ main_pc = "start"
    /\ exit_status = -1
    /\ emitted = "none"
    /\ run = 1
    /\ first = NoFirst

NextMain ==
    \/ MainStart
    \/ MainOutput
    \/ MainExcept
    \/ Next

SpecMain == InitMain /\ [][NextMain]_vars

----------------------------------------------------------------------------
(* perform_clustering called a second time on the same batch *)

\* a list that outlives the call, still holding the first call's indices
FreshIndices_Kept == valid_indices

\* feature_vectors = [], line 70
FreshVectors == <<>>

\* valid_indices = [], line 71
FreshIndices == <<>>

\* the first call has returned; the second starts at line 70 with its own
\* local names, every other name of the function unbound again
Reinvoke ==
    /\ run = 1
    /\ pc = "returned"
    /\ run' = 2
    /\ first' = [X_scaled |-> X_scaled, hdbscan_params |-> hdbscan_params,
                 cluster_labels |-> cluster_labels, umap_params |-> umap_params,
                 umap_embeddings |-> umap_embeddings, results |-> results]
    /\ i' = 0
    /\ feature_vectors' = FreshVectors
    /\ valid_indices' = FreshIndices
    /\ warnings' = <<>>
    /\ X_scaled' = <<>>
    /\ hdbscan_params' = HdbscanParams(0)
    /\ cluster_labels' = <<>>
    /\ unique_labels' = {}
    /\ cluster_centers' = <<>>
    /\ umap_params' = UmapParams(0)
    /\ umap_embeddings' = <<>>
    /\ results' = NoResults
    /\ invoked' = <<>>
    /\ pc' = "loop"
    /\ UNCHANGED <<features_data, error, main_pc, exit_status, emitted>>

\* the batches perform_clustering is called twice on
RerunBatches == SeqsUpTo(SampleRecords, MaxRerunBatch)

InitTwice ==
    /\ features_data \in RerunBatches
    /\ i = 0
    /\ feature_vectors = <<>>
    /\ valid_indices = <<>>
    /\ warnings = <<>>
    /\ X_scaled = <<>>
    /\ hdbscan_params = HdbscanParams(0)
    /\ cluster_labels = <<>>
    /\ unique_labels = {}
    /\ cluster_centers = <<>>
    /\ umap_params = UmapParams(0)
    /\ umap_embeddings = <<>>
    /\ results = NoResults
    /\ invoked = <<>>
    /\ error = ""
    /\ pc = "loop"
    /\ main_pc = "direct"
    /\ exit_status = -1
    /\ emitted = "none"
    /\ run = 1
    /\ first = NoFirst

NextTwice ==
    \/ Reinvoke
    \/ Next

SpecTwice == InitTwice /\ [][NextTwice]_vars

----------------------------------------------------------------------------
(* extract_feature_vector on every combination of present keys *)

\* every key extract_feature_vector looks for
RecognizedKeys ==
    {"mfcc_mean", "mfcc_std", "chroma_mean", "chroma_std"}
    \cup Range(spectral_features) \cup Range(rate_features)
    \cup Range(energy_features) \cup Range(metadata_features)

\* a value for each key, a sequence for the four sequence keys, no number
\* used twice
KeyValue(k) ==
    CASE k = "mfcc_mean" -> <<11, 12>>
      [] k = "mfcc_std" -> <<13, 14>>
      [] k = "chroma_mean" -> <<15, 16, 17>>
      [] k = "chroma_std" -> <<18, 19, 20>>
      [] k = "spectral_centroid_mean" -> 21
      [] k = "spectral_centroid_std" -> 22
      [] k = "spectral_bandwidth_mean" -> 23
      [] k = "spectral_bandwidth_std" -> 24
      [] k = "spectral_rolloff_mean" -> 25
      [] k = "spectral_rolloff_std" -> 26
      [] k = "zero_crossing_rate_mean" -> 27
      [] k = "zero_crossing_rate_std" -> 28
      [] k = "rms_mean" -> 29
      [] k = "rms_std" -> 30
      [] k = "duration" -> 31
      [] k = "sample_rate" -> 32
      [] k = "audio_length" -> 33
      [] OTHER -> 7

\* the features dictionary holding the keys of S and one unrecognised key
DictOf(S) == [k \in S \cup {"unknown"} |-> KeyValue(k)]

InitExtract ==
    /\ \E S \in SUBSET RecognizedKeys :
           features_data = <<[id |-> "x", features |-> DictOf(S)]>>
    /\ i = 0
    /\ feature_vectors = <<>>
    /\ valid_indices = <<>>
    /\ warnings = <<>>
    /\ X_scaled = <<>>
    /\ hdbscan_params = HdbscanParams(0)
    /\ cluster_labels = <<>>
    /\ unique_labels = {}
    /\ cluster_centers = <<>>
    /\ umap_params = UmapParams(0)
    /\ umap_embeddings = <<>>
    /\ results = NoResults
    /\ invoked = <<>>
    /\ error = ""
    /\ pc = "loop"
    /\ main_pc = "direct"
    /\ exit_status = -1
    /\ emitted = "none"
    /\ run = 1
    /\ first = NoFirst

\* one pass of the loop body, which calls extract_feature_vector
NextExtract == ValidatorStep

SpecExtract == InitExtract /\ [][NextExtract]_vars

----------------------------------------------------------------------------
(* Properties *)

Returned == pc = "returned"
Did(stage) == stage \in Range(invoked)

\* the valid sample count n
n_valid == Len(feature_vectors)

StrictlyIncreasing(s) == \A j, k \in 1..Len(s) : j < k => s[j] < s[k]

\* C1: in every returned Result valid_indices, cluster_labels and
\* umap_embeddings have one length, and valid_indices is strictly increasing
\* with every value an index 0..len(batch)-1 of the batch.
C1_ValidIndexConsistency ==
    Returned =>
        /\ Len(results.valid_indices) = Len(results.cluster_labels)
        /\ Len(results.cluster_labels) = Len(results.umap_embeddings)
        /\ StrictlyIncreasing(results.valid_indices)
        /\ \A k \in 1..Len(results.valid_indices) :
               results.valid_indices[k] \in 0..(Len(features_data) - 1)

C1_Witness ==
    /\ Returned
    /\ Len(results.valid_indices) = 2
    /\ Len(features_data) = 3
    /\ results.valid_indices[1] = 0
    /\ results.valid_indices[2] = 2

\* a batch position whose record assembles without error into a vector with
\* no NaN and no infinite component
CleanPosition(p) ==
    LET feature_data == features_data[p + 1]
    IN  /\ "features" \in DOMAIN feature_data
        /\ ExtractRaises(feature_data.features) = ""
        /\ \A v \in Range(FeatureList(feature_data.features)) :
               v # NaN /\ v # PosInf /\ v # NegInf

\* a batch position whose record assembles into a vector with a NaN or an
\* infinite component
TaintedPosition(p) ==
    LET feature_data == features_data[p + 1]
    IN  /\ "features" \in DOMAIN feature_data
        /\ ExtractRaises(feature_data.features) = ""
        /\ \E v \in Range(FeatureList(feature_data.features)) :
               v = NaN \/ v = PosInf \/ v = NegInf

Positions == 0..(Len(features_data) - 1)

\* C2: in every returned Result valid_indices lists, in input order, exactly
\* the batch positions whose vector assembled without error and has no NaN
\* and no infinite component.
C2_ValidIndicesExact ==
    Returned =>
        /\ Range(results.valid_indices) = {p \in Positions : CleanPosition(p)}
        /\ StrictlyIncreasing(results.valid_indices)
        /\ \A p \in Positions : TaintedPosition(p) => p \notin Range(results.valid_indices)

C2_Witness ==
    /\ Returned
    /\ Len(features_data) = 3
    /\ Len(results.valid_indices) = 1
    /\ \E p, q \in Positions :
           /\ p # q
           /\ TaintedPosition(p)
           /\ TaintedPosition(q)
           /\ NaN \in Range(FeatureList(features_data[p + 1].features))
           /\ NaN \notin Range(FeatureList(features_data[q + 1].features))

\* C3: once the loop has visited every record and left no valid vector,
\* perform_clustering has raised 'No valid feature vectors found' with no
\* stage after the validator run and no Result.
C3_NoValidData ==
    (pc # "loop" /\ i = Len(features_data) /\ valid_indices = <<>>) =>
        /\ pc = "raised"
        /\ error = "No valid feature vectors found"
        /\ invoked = <<>>
        /\ results = NoResults

C3_Witness ==
    /\ pc = "raised"
    /\ i = Len(features_data)
    /\ Len(features_data) = 3
    /\ valid_indices = <<>>
    /\ Len(warnings) = 3

\* C4: the Embedding Engine is never invoked with fewer than 2 valid samples,
\* and no Result is returned for fewer than 2 valid samples.
C4_DegenerateInputRejected ==
    /\ Did("umap") => n_valid >= 2
    /\ Returned => n_valid >= 2

\* C5: for n >= 2 the n_neighbors handed to umap.UMAP lies in 1..n-1.
C5_NeighborClamp ==
    (Did("umap_params") /\ n_valid >= 2) =>
        /\ 1 <= umap_params.n_neighbors
        /\ umap_params.n_neighbors <= n_valid - 1

C5_Witness ==
    /\ Did("umap")
    /\ n_valid = 12
    /\ umap_params.n_neighbors = 11

\* the table of clustering parameters, epsilon and alpha in tenths
ClusterTable(n) ==
    IF n <= 10 THEN <<IF n \div 3 > 2 THEN n \div 3 ELSE 2, 1, 3, 5>>
    ELSE <<3, 2, 1, 10>>

\* C6: the parameters handed to hdbscan.HDBSCAN are the table's row for n:
\* (max(2, n // 3), 1, 0.3, 0.5) up to n = 10 and (3, 2, 0.1, 1.0) from n = 11.
C6_ClusterParamsTable ==
    Did("hdbscan_params") =>
        <<hdbscan_params.min_cluster_size, hdbscan_params.min_samples,
          hdbscan_params.cluster_selection_epsilon, hdbscan_params.alpha>>
            = ClusterTable(n_valid)

C6_Witness ==
    /\ Did("hdbscan")
    /\ n_valid = 10
    /\ hdbscan_params.min_cluster_size = 3
    /\ hdbscan_params.min_samples = 1
    /\ hdbscan_params.cluster_selection_epsilon = 3

\* the table of embedding parameters: <<neighbor_count, min_distance in tenths>>
EmbeddingTable(n) ==
    IF n < 5 THEN <<IF n - 1 > 1 THEN n - 1 ELSE 1, 5>>
    ELSE IF n < 10 THEN <<IF n - 1 < 5 THEN n - 1 ELSE 5, 3>>
    ELSE <<15, 1>>

\* v brought into lo..hi, the lower end winning when the range is empty
Clamped(v, lo, hi) ==
    LET capped == IF v > hi THEN hi ELSE v
    IN  IF capped < lo THEN lo ELSE capped

\* C7: the parameters handed to umap.UMAP are the table's row for n with
\* neighbor_count clamped to [1, n-1] (n-1 for n in 10..15, 15 from n = 16),
\* and always n_components 2, metric euclidean, seed 42.
C7_EmbeddingParamsTable ==
    Did("umap_params") =>
        /\ umap_params.min_dist = EmbeddingTable(n_valid)[2]
        /\ umap_params.n_neighbors = Clamped(EmbeddingTable(n_valid)[1], 1, n_valid - 1)
        /\ (n_valid >= 10 /\ n_valid <= 15) => umap_params.n_neighbors = n_valid - 1
        /\ n_valid >= 16 => umap_params.n_neighbors = 15
        /\ umap_params.n_components = 2
        /\ umap_params.metric = "euclidean"
        /\ umap_params.random_state = 42

C7_Witness ==
    /\ Did("umap_params")
    /\ n_valid = 16
    /\ umap_params.n_neighbors = 15
    /\ umap_params.min_dist = 1

\* the non-noise labels of a label array
NonNoise(labels) == {labels[r] : r \in 1..Len(labels)} \ {-1}

\* the k-th smallest element of a set of integers
KthSmallest(S, k) == CHOOSE x \in S : Cardinality({y \in S : y < x}) = k - 1

RECURSIVE SumOver(_, _, _)
\* the sum of column c of the rows of X whose number is in R
SumOver(X, R, c) ==
    IF R = {} THEN 0
    ELSE LET r == CHOOSE x \in R : TRUE
         IN  X[r][c] + SumOver(X, R \ {r}, c)

RowsOf(labels, label) == {r \in 1..Len(labels) : labels[r] = label}

\* C8: in every returned Result total_clusters is the number of distinct
\* labels other than -1, there are that many centres, and the k-th centre is
\* the mean of the rows carrying the k-th smallest non-noise label.
C8_LabelCenterConsistency ==
    Returned =>
        /\ results.total_clusters = Cardinality(NonNoise(results.cluster_labels))
        /\ Len(results.cluster_centers) = results.total_clusters
        /\ \A k \in 1..Len(results.cluster_centers) :
               LET rows == RowsOf(results.cluster_labels,
                                  KthSmallest(NonNoise(results.cluster_labels), k))
               IN  /\ results.cluster_centers[k].count = Cardinality(rows)
                   /\ \A c \in 1..Len(X_scaled[1]) :
                          results.cluster_centers[k].sum[c] = SumOver(X_scaled, rows, c)

C8_Witness ==
    /\ Returned
    /\ results.total_clusters = 2
    /\ Len(results.cluster_labels) = 3
    /\ results.cluster_labels[1] = 1
    /\ results.cluster_labels[3] = 0
    /\ results.cluster_centers[1] # results.cluster_centers[2]

RECURSIVE Count(_, _)
\* how many entries of s equal v
Count(s, v) ==
    IF s = <<>> THEN 0
    ELSE (IF Head(s) = v THEN 1 ELSE 0) + Count(Tail(s), v)

RECURSIVE CountOther(_, _)
\* how many entries of s differ from v
CountOther(s, v) ==
    IF s = <<>> THEN 0
    ELSE (IF Head(s) # v THEN 1 ELSE 0) + CountOther(Tail(s), v)

\* C9: in every returned Result noise_points is the number of labels equal
\* to -1, and with the number of non-noise labels it adds up to
\* len(valid_indices).
C9_NoiseAccounting ==
    Returned =>
        /\ results.noise_points = Count(results.cluster_labels, -1)
        /\ results.noise_points + CountOther(results.cluster_labels, -1)
               = Len(results.valid_indices)

C9_Witness ==
    /\ Returned
    /\ results.noise_points = 2
    /\ results.total_clusters = 1
    /\ Len(results.valid_indices) = 3

\* C10: perform_clustering never raises while records after the one being
\* examined remain: no single record aborts the batch.
C10_PerSampleNeverAborts ==
    pc = "raised" => ~(i + 1 < Len(features_data))

ResultFields ==
    {"cluster_labels", "umap_embeddings", "cluster_centers", "valid_indices",
     "total_clusters", "noise_points"}

\* C11: perform_clustering hands back a Result with all six fields filled
\* from the finished stages or nothing at all; main writes Result JSON only
\* after perform_clustering returned, and ends with status 1 and nothing
\* written when it did not return.
C11_NoPartialResult ==
    /\ pc = "returned" =>
           /\ DOMAIN results = ResultFields
           /\ Len(results.cluster_labels) = Len(results.valid_indices)
           /\ Len(results.umap_embeddings) = Len(results.valid_indices)
           /\ Len(results.cluster_centers) = results.total_clusters
           /\ Len(results.valid_indices) >= 1
    /\ pc # "returned" => results = NoResults
    /\ emitted # "none" => pc = "returned"
    /\ (main_pc = "exited" /\ pc # "returned") =>
           (exit_status = 1 /\ emitted = "none")

C11_Witness ==
    /\ main_pc = "exited"
    /\ pc = "returned"
    /\ emitted = "stdout"
    /\ exit_status = 0
    /\ Len(results.valid_indices) = 2
    /\ results.total_clusters = 1

\* a record whose feature dictionary holds no recognised feature group
NoGroupRecord(feature_data) ==
    /\ "features" \in DOMAIN feature_data
    /\ DOMAIN feature_data.features \cap RecognizedKeys = {}

\* C12: a record with no recognised feature group is skipped by the
\* validator, and a batch of such records ends with the error
\* 'No valid feature vectors found'.
C12_EmptyRecordSkipped ==
    /\ \A p \in 0..(i - 1) :
           NoGroupRecord(features_data[p + 1]) => p \notin Range(valid_indices)
    /\ (/\ pc = "raised"
        /\ features_data # <<>>
        /\ \A p \in Positions : NoGroupRecord(features_data[p + 1]))
           => error = "No valid feature vectors found"

\* the keys in the order of assembly
AssemblyOrder ==
    <<"mfcc_mean", "mfcc_std",
      "spectral_centroid_mean", "spectral_centroid_std",
      "spectral_bandwidth_mean", "spectral_bandwidth_std",
      "spectral_rolloff_mean", "spectral_rolloff_std",
      "zero_crossing_rate_mean", "zero_crossing_rate_std",
      "rms_mean", "rms_std",
      "chroma_mean", "chroma_std",
      "duration", "sample_rate", "audio_length">>

SequenceKeys == {"mfcc_mean", "mfcc_std", "chroma_mean", "chroma_std"}

\* the components a key holds, as a sequence
Components(d, k) == IF k \in SequenceKeys THEN d[k] ELSE <<d[k]>>

\* the mean key a deviation sequence belongs to
MeanOf(k) == IF k = "mfcc_std" THEN "mfcc_mean" ELSE "chroma_mean"

\* a key is present
Present(d, k) == k \in DOMAIN d

\* a key is present, a deviation sequence only together with its mean
PresentPaired(d, k) ==
    /\ k \in DOMAIN d
    /\ k \in {"mfcc_std", "chroma_std"} => MeanOf(k) \in DOMAIN d

RECURSIVE ConcatPresent(_, _)
\* the components of the present keys, in the order of keys
ConcatPresent(d, keys) ==
    IF keys = <<>> THEN <<>>
    ELSE (IF Present(d, Head(keys)) THEN Components(d, Head(keys)) ELSE <<>>)
         \o ConcatPresent(d, Tail(keys))

RECURSIVE ConcatPaired(_, _)
ConcatPaired(d, keys) ==
    IF keys = <<>> THEN <<>>
    ELSE (IF PresentPaired(d, Head(keys)) THEN Components(d, Head(keys)) ELSE <<>>)
         \o ConcatPaired(d, Tail(keys))

RECURSIVE SizePaired(_, _)
\* the sum of the sizes of the present groups
SizePaired(d, keys) ==
    IF keys = <<>> THEN 0
    ELSE (IF PresentPaired(d, Head(keys)) THEN Len(Components(d, Head(keys))) ELSE 0)
         + SizePaired(d, Tail(keys))

\* the loop body has run on the one record and kept its vector
Assembled == i = 1 /\ Len(feature_vectors) = 1

\* C13 as stated: the vector is the present keys' components in the fixed
\* order, every present key contributing.
C13_EveryPresentGroup ==
    Assembled =>
        feature_vectors[1] = ConcatPresent(features_data[1].features, AssemblyOrder)

\* C13 as amended: the vector is the present keys' components in the fixed
\* order, mfcc_std and chroma_std contributing only when mfcc_mean and
\* chroma_mean are present; its length is the sum of those groups' sizes.
C13_AssemblyOrder ==
    Assembled =>
        /\ feature_vectors[1] = ConcatPaired(features_data[1].features, AssemblyOrder)
        /\ Len(feature_vectors[1]) = SizePaired(features_data[1].features, AssemblyOrder)

C13_Witness ==
    /\ Assembled
    /\ feature_vectors[1] = <<11, 12, 13, 14, 22, 29, 15, 16, 17, 18, 19, 20, 33>>

\* the number of rows each centre was averaged over, in centre order
CenterCounts == [k \in 1..Len(cluster_centers) |-> cluster_centers[k].count]

\* C14: once the centres are computed, the k-th centre is the mean (column
\* sums over row count) of exactly the normalised rows labelled with the
\* k-th smallest non-noise label; rows labelled -1 enter no centre and no
\* row enters two, so the centres' row counts and the noise rows add up to
\* the number of rows.
C14_CentersAreClusterMeans ==
    Did("centers") =>
        /\ \A k \in 1..Len(cluster_centers) :
               LET rows == RowsOf(cluster_labels,
                                  KthSmallest(NonNoise(cluster_labels), k))
               IN  /\ cluster_centers[k].count = Cardinality(rows)
                   /\ cluster_centers[k].sum =
                          [c \in 1..Len(X_scaled[1]) |-> SumOver(X_scaled, rows, c)]
                   /\ \A r \in rows : cluster_labels[r] # -1
        /\ SumSeq(CenterCounts) + Count(cluster_labels, -1) = Len(X_scaled)

C14_Witness ==
    /\ pc = "umap_params"
    /\ cluster_labels = <<1, -1, 1>>
    /\ Len(cluster_centers) = 1
    /\ cluster_centers[1].count = 2
    /\ X_scaled[1] # X_scaled[3]
    /\ X_scaled[2] # X_scaled[3]

EngineErrors == {"EngineFailure: hdbscan", "EngineFailure: umap"}

\* C16: within one invocation each engine is invoked at most once, and once
\* an engine has raised the function has ended with that error: the failing
\* call is the last stage run, the other engine is not called after it and
\* no Result exists.
C16_EngineFailureFatal ==
    /\ Count(invoked, "hdbscan") <= 1
    /\ Count(invoked, "umap") <= 1
    /\ error \in EngineErrors =>
           /\ pc = "raised"
           /\ results = NoResults
           /\ error = "EngineFailure: hdbscan" =>
                  (invoked[Len(invoked)] = "hdbscan" /\ ~Did("umap"))
           /\ error = "EngineFailure: umap" => invoked[Len(invoked)] = "umap"

C16_Witness ==
    /\ error = "EngineFailure: umap"
    /\ pc = "raised"
    /\ Len(cluster_labels) = 3
    /\ Len(cluster_centers) = 2
    /\ Count(invoked, "hdbscan") = 1

\* C17 as stated: the centres are computed only after both engines have
\* completed.
C17_SummarizerAfterBothEngines ==
    Did("centers") => (Did("hdbscan") /\ Did("umap"))

\* the stages after the validator loop, in the order they run
StageOrder ==
    <<"normalizer", "hdbscan_params", "hdbscan", "centers", "umap_params",
      "umap", "results">>

\* C17 as amended: the stages run in the order validator, normaliser,
\* clustering parameters, Cluster Engine, centres, embedding parameters,
\* Embedding Engine, result; the centres are computed after the Cluster
\* Engine and before the Embedding Engine is invoked; both parameter
\* selections use the one valid-sample count n.
C17_StageOrder ==
    /\ Len(invoked) <= Len(StageOrder)
    /\ invoked = SubSeq(StageOrder, 1, Len(invoked))
    /\ invoked # <<>> => (i = Len(features_data) /\ pc # "loop")
    /\ Did("umap") => Did("centers")
    /\ Did("umap_params") =>
           /\ n_valid = Len(valid_indices)
           /\ n_valid = Len(X_scaled)
           /\ <<hdbscan_params.min_cluster_size, hdbscan_params.min_samples>>
                  = <<ClusterTable(n_valid)[1], ClusterTable(n_valid)[2]>>
           /\ umap_params.n_neighbors
                  = Clamped(EmbeddingTable(n_valid)[1], 1, n_valid - 1)

C17_Witness ==
    /\ pc = "umap"
    /\ invoked = SubSeq(StageOrder, 1, 5)
    /\ n_valid = 2
    /\ Len(features_data) = 3
    /\ umap_embeddings = <<>>
    /\ Len(cluster_centers) = 1

\* two accepted vectors differ in length
DifferentLengths ==
    \E r, q \in 1..Len(feature_vectors) :
        Len(feature_vectors[r]) # Len(feature_vectors[q])

\* C18: when the accepted vectors of a batch differ in length,
\* perform_clustering ends by raising, with no vector padded or cut, no
\* normalised matrix, no engine invoked and no Result; once the loop has
\* visited every record, it is building and normalising the matrix that fails.
C18_RaggedBatchFails ==
    (DifferentLengths /\ pc \notin {"idle", "loop", "normalize"}) =>
        /\ pc = "raised"
        /\ i = Len(features_data) =>
               (error = "ValueError" /\ invoked = <<"normalizer">>)
        /\ ~Did("hdbscan") /\ ~Did("umap")
        /\ X_scaled = <<>>
        /\ results = NoResults
        /\ \A r \in 1..Len(feature_vectors) :
               feature_vectors[r] =
                   FeatureList(features_data[valid_indices[r] + 1].features)

C18_Witness ==
    /\ pc = "raised"
    /\ error = "ValueError"
    /\ Len(feature_vectors) = 2
    /\ Len(feature_vectors[1]) = 4
    /\ Len(feature_vectors[2]) = 2

\* a mean sequence is there without its deviation sequence
MeanWithoutStd(d) ==
    \/ "mfcc_mean" \in DOMAIN d /\ "mfcc_std" \notin DOMAIN d
    \/ "chroma_mean" \in DOMAIN d /\ "chroma_std" \notin DOMAIN d

\* the deviation sequences that are there without their mean sequence
OrphanStds(d) ==
    {k \in {"mfcc_std", "chroma_std"} : k \in DOMAIN d /\ MeanOf(k) \notin DOMAIN d}

\* C19: after the loop body has run on a record, a record with mfcc_mean
\* but no mfcc_std (or chroma_mean but no chroma_std) has been skipped with
\* a 'Failed to extract' warning and has contributed no vector; any other
\* record has been assembled without error, and of a deviation sequence
\* whose mean sequence is missing no component is in its vector.
C19_PairsKeyedOnMean ==
    (i = 1 /\ Len(features_data) = 1) =>
        LET d == features_data[1].features
        IN  /\ MeanWithoutStd(d) =>
                   /\ feature_vectors = <<>>
                   /\ valid_indices = <<>>
                   /\ warnings = <<[kind |-> "failed", id |-> features_data[1].id]>>
                   /\ pc = "loop"
            /\ ~MeanWithoutStd(d) =>
                   /\ valid_indices = <<0>>
                   /\ warnings = <<>>
                   /\ \A k \in OrphanStds(d) :
                          Range(d[k]) \cap Range(feature_vectors[1]) = {}

C19_Witness ==
    /\ i = 1
    /\ OrphanStds(features_data[1].features) = {"chroma_std"}
    /\ feature_vectors = << <<11, 12, 13, 14, 31>> >>
    /\ warnings = <<>>

\* C20: for n >= 2 the clustering parameters fit the data:
\* 2 <= min_cluster_size <= n, min_cluster_size is 2 or 3, and
\* 1 <= min_samples <= min_cluster_size.
C20_ClusterParamsFeasible ==
    (Did("hdbscan_params") /\ n_valid >= 2) =>
        /\ 2 <= hdbscan_params.min_cluster_size
        /\ hdbscan_params.min_cluster_size <= n_valid
        /\ hdbscan_params.min_cluster_size \in {2, 3}
        /\ 1 <= hdbscan_params.min_samples
        /\ hdbscan_params.min_samples <= hdbscan_params.min_cluster_size

C20_Witness ==
    /\ pc = "hdbscan"
    /\ n_valid = 2
    /\ hdbscan_params.min_cluster_size = 2
    /\ hdbscan_params.min_samples = 1

\* main has ended
Exited == main_pc = "exited"

\* perform_clustering was never entered
NeverCalled ==
    /\ pc = "idle"
    /\ i = 0
    /\ invoked = <<>>
    /\ results = NoResults

\* C21: main on an empty features list exits with status 1 without calling
\* perform_clustering; an exception while reading, clustering or writing
\* makes main exit with status 1; status 0 occurs only after the whole
\* Result has been written.
C21_ExitStatus ==
    /\ Exited => exit_status \in {0, 1}
    /\ ~Exited => exit_status = -1
    /\ (Exited /\ features_data = <<>>) =>
           /\ exit_status = 1
           /\ NeverCalled
           /\ emitted = "none"
    /\ (Exited /\ pc = "idle") => (exit_status = 1 /\ emitted = "none")
    /\ (Exited /\ CallRaised) => (exit_status = 1 /\ emitted = "none")
    /\ (Exited /\ emitted \notin OutputTargets) => exit_status = 1
    /\ exit_status = 0 =>
           /\ Exited
           /\ CallReturned
           /\ results # NoResults
           /\ emitted \in OutputTargets

C21_Witness ==
    /\ Exited
    /\ features_data = <<>>
    /\ exit_status = 1
    /\ NeverCalled

====
